---- MODULE Spec2Model ----
(***************************************************************************)
(* Personalized GitHub Radar: the analysis pipeline.                       *)
(*                                                                         *)
(*   LanguageFilter   scripts/helpers/analyzer/language-filter.js          *)
(*   SmartAnalyzer    scripts/test-env.js, lines 50-287                    *)
(*   StandaloneRadar  scripts/radar-standalone.js                          *)
(*   PersonalizedRadar  unnamed/part_001                                   *)
(*                                                                         *)
(* A JavaScript string is a sequence of one-character strings.  An         *)
(* optional value (a property that may be undefined or null) is a sequence *)
(* of length at most one: None when absent, Some(v) when present.          *)
(***************************************************************************)
EXTENDS Integers, Sequences, FiniteSets, TLC

VARIABLES
  radar,            \* which orchestrator runs: "standalone" or "personalized"
  config,           \* the loaded radar.config.yml
  openaiKey,        \* process.env.OPENAI_API_KEY ("" when unset)
  allRepos,         \* this.allRepos
  filteredRepos,    \* this.filteredRepos
  analysisResults,  \* this.analysisResults
  analyzer,         \* the SmartAnalyzer of this run (its fields)
  pc,               \* the position of the run
  batchIdx,         \* i of the batch loop (0-based)
  pos,              \* records of the current batch already handled by the running loop
  enrichedRepos,    \* enrichBatch's enrichedRepos
  analyzedRepos,    \* analyzeBatch's analyzedRepos
  aiSummaryCount,   \* analyzeBatch's aiSummaryCount
  genTrace,         \* history: per record of analyzedRepos, what generateAISummary did
  genCalls,         \* history: calls of generateAISummary in this run
  failedBatches,    \* history: the batches whose processing threw
  configFile,       \* whether radar.config.yml exists in the working directory
  githubTokens,     \* the GitHub token names set in process.env
  githubReadme,     \* the README document GitHub serves for each repository
  finalReport,      \* this.finalReport (None for the empty string)
  batchStarts,      \* history: the batches the loop has entered, in order
  enrichedIds,      \* history: ids of the records whose enrichment attempt is over
  scoredIds,        \* history: ids of the records basicAnalysis has scored
  rested,           \* history: a delay has ended and nothing was requested since
  enrichTrace,      \* history of enrichBatch on its own: the outcome for each record
  radarBuilt,       \* runRadarIntegration: new PersonalizedRadar() has been called
  standardRuns,     \* runRadarIntegration: the outcome of each call of runStandardUpdates
  caughtError,      \* runRadarIntegration: error of its catch block, None outside it
  thrownError       \* runRadarIntegration: the error it has rejected with, or None

\* process.env and GitHub: what a run finds and does not change in the batch loop.
envVars == << configFile, githubTokens, githubReadme >>

\* The histories of the batch loop.
loopHistory == << batchStarts, enrichedIds, scoredIds, rested, enrichTrace >>

\* The state of runRadarIntegration around a run of the radar.
integration == << radarBuilt, standardRuns, caughtError, thrownError >>

vars == << radar, config, openaiKey, allRepos, filteredRepos, analysisResults,
           analyzer, pc, batchIdx, pos, enrichedRepos, analyzedRepos,
           aiSummaryCount, genTrace, genCalls, failedBatches, configFile,
           githubTokens, githubReadme, finalReport, batchStarts, enrichedIds,
           scoredIds, rested, enrichTrace, radarBuilt, standardRuns,
           caughtError, thrownError >>

----------------------------------------------------------------------------
(* Bounds of the model. *)

MaxRepos == 4        \* trending repositories of one run of the standalone radar
MaxPersonalizedRepos == 2  \* trending repositories of one run of the personalized radar
MaxTextLen == 3      \* characters of a description handed to the scorer
MaxKeywords == 2     \* configured topic keywords handed to the scorer
MaxTargets == 2      \* configured target languages handed to the filter
MaxFilterRepos == 3  \* repositories handed to the filter
MaxEnrichRepos == 2  \* repositories handed to enrichBatch on its own
MaxReadmeExcess == 1 \* characters by which a README document misses or exceeds a length
MaxRunRepos == 4     \* trending repositories of a run followed from run() on
MaxFormatRepos == 3  \* analyzed records handed to the formatter on its own
MaxFormatScore == 2  \* relevance score of such a record, and configured minimum score

(* Program constants. *)

DefaultMaxAISummaries == 10
DefaultMinRelevanceScore == 1
ReadmeLimit == 5000
DescriptionWeight == 5
ReadmeWeight == 1
TopicWeight == 3
StandaloneBatchSize == 3
PersonalizedBatchSize == 5

----------------------------------------------------------------------------
(* Optional values and small helpers. *)

None == << >>
Some(v) == << v >>
IsSome(o) == Len(o) = 1
Get(o) == o[1]

\* The radar is run on its own, not by runRadarIntegration.
notIntegrated ==
  /\ radarBuilt = FALSE
  /\ standardRuns = << >>
  /\ caughtError = None
  /\ thrownError = None

Min(a, b) == IF a < b THEN a ELSE b
Max(a, b) == IF a > b THEN a ELSE b

\* All sequences over S of length at most n.
SeqsUpTo(S, n) == UNION { [1..k -> S] : k \in 0..n }

\* Number of indices of s whose element satisfies P.
CountIf(s, P(_)) == Cardinality({ i \in 1..Len(s) : P(s[i]) })

----------------------------------------------------------------------------
(* Strings. *)

\* String.prototype.toLowerCase, one character.
LowerChar(c) ==
  CASE c = "A" -> "a"
    [] c = "B" -> "b"
    [] c = "C" -> "c"
    [] c = "P" -> "p"
    [] c = "R" -> "r"
    [] c = "Y" -> "y"
    [] OTHER -> c

\* String.prototype.toLowerCase.
toLowerCase(s) == [ i \in 1..Len(s) |-> LowerChar(s[i]) ]

\* The regular expression class \w on the characters used here.
IsWordChar(c) ==
  c \in { "a", "b", "c", "p", "r", "s", "y", "A", "B", "C", "P", "R", "Y" }

\* Array.prototype.join(' ') on an array of strings.
RECURSIVE joinSpace(_)
joinSpace(arr) ==
  IF Len(arr) = 0 THEN << >>
  ELSE IF Len(arr) = 1 THEN arr[1]
  ELSE arr[1] \o << " " >> \o joinSpace(Tail(arr))

----------------------------------------------------------------------------
(* new RegExp(source, 'gi') and String.prototype.match, for pattern sources *)
(* made of literal characters, "." (any character) and "+" (one or more of  *)
(* the preceding atom, greedy).  The keyword is put into the pattern source *)
(* unescaped, so its characters are pattern syntax.                         *)

\* The source does not compile (SyntaxError: Nothing to repeat): a "+" with
\* no atom before it, or directly after another quantifier.  In the bounded
\* source \b<keyword>\b the atom before a leading "+" is the assertion \b,
\* which cannot be repeated either.
RegExpThrows(src) ==
  \E i \in 1..Len(src) :
    /\ src[i] = "+"
    /\ (i = 1 \/ src[i - 1] = "+")

\* The terms of a source that compiles: each an atom and whether "+" follows.
RECURSIVE RegExpTerms(_)
RegExpTerms(src) ==
  IF Len(src) = 0 THEN << >>
  ELSE IF Len(src) >= 2 /\ src[2] = "+"
       THEN << [atom |-> src[1], plus |-> TRUE] >>
              \o RegExpTerms(SubSeq(src, 3, Len(src)))
       ELSE << [atom |-> src[1], plus |-> FALSE] >>
              \o RegExpTerms(Tail(src))

\* An atom against one character, under the i flag.
AtomMatches(atom, c) == atom = "." \/ LowerChar(atom) = LowerChar(c)

\* The assertion \b after the first p characters of text.
AtWordBoundary(text, p) ==
  LET before == p >= 1 /\ IsWordChar(text[p])
      after == p < Len(text) /\ IsWordChar(text[p + 1])
  IN before # after

\* Length of the longest run of characters of text after offset p matching atom.
RECURSIVE RunLength(_, _, _)
RunLength(atom, text, p) ==
  IF p < Len(text) /\ AtomMatches(atom, text[p + 1])
  THEN 1 + RunLength(atom, text, p + 1)
  ELSE 0

\* The backtracking matcher: terms k.. of the pattern against text from offset
\* p; the end offset of the first match in priority order, or -1.  bounded
\* says that the pattern ends with \b.
RECURSIVE MatchTerms(_, _, _, _, _), MatchPlus(_, _, _, _, _, _)
MatchTerms(terms, k, text, p, bounded) ==
  IF k > Len(terms)
  THEN IF bounded /\ ~AtWordBoundary(text, p) THEN -1 ELSE p
  ELSE IF terms[k].plus
  THEN MatchPlus(terms, k, text, p, bounded, RunLength(terms[k].atom, text, p))
  ELSE IF p < Len(text) /\ AtomMatches(terms[k].atom, text[p + 1])
  THEN MatchTerms(terms, k + 1, text, p + 1, bounded)
  ELSE -1

\* Term k is atom+: n repetitions first, then fewer, down to one.
MatchPlus(terms, k, text, p, bounded, n) ==
  IF n < 1 THEN -1
  ELSE LET e == MatchTerms(terms, k + 1, text, p + n, bounded)
       IN IF e # -1 THEN e
          ELSE MatchPlus(terms, k, text, p, bounded, n - 1)

\* A match of the whole pattern starting at offset p: its end offset, or -1.
MatchAt(terms, text, p, bounded) ==
  IF bounded /\ ~AtWordBoundary(text, p) THEN -1
  ELSE MatchTerms(terms, 1, text, p, bounded)

\* (text.match(regex) || []).length for a g-flag regex: matches are taken
\* leftmost first, each search resuming at the end of the previous match (one
\* further after an empty match).
RECURSIVE MatchCountFrom(_, _, _, _)
MatchCountFrom(terms, text, p, bounded) ==
  IF p > Len(text) THEN 0
  ELSE LET e == MatchAt(terms, text, p, bounded)
       IN IF e = -1 THEN MatchCountFrom(terms, text, p + 1, bounded)
          ELSE 1 + MatchCountFrom(terms, text, IF e = p THEN p + 1 ELSE e, bounded)

\* exactMatches: matches of new RegExp(`\\b${lowerKeyword}\\b`, 'gi').
exactMatches(lowerText, lowerKeyword) ==
  MatchCountFrom(RegExpTerms(lowerKeyword), lowerText, 0, TRUE)

\* partialMatches with a pattern that lacks the g flag: match() stops at the
\* first match.
partialMatchesFirstOnly(lowerText, lowerKeyword) ==
  Min(1, MatchCountFrom(RegExpTerms(lowerKeyword), lowerText, 0, FALSE))

\* partialMatches: matches of new RegExp(lowerKeyword, 'gi').
partialMatches(lowerText, lowerKeyword) ==
  MatchCountFrom(RegExpTerms(lowerKeyword), lowerText, 0, FALSE)

----------------------------------------------------------------------------
(* SmartAnalyzer: scoring. *)

\* [...new Set(arr)]: the first occurrence of every element, in order.
RECURSIVE uniqueKeywords(_)
uniqueKeywords(arr) ==
  IF Len(arr) = 0 THEN << >>
  ELSE LET front == uniqueKeywords(SubSeq(arr, 1, Len(arr) - 1))
           last == arr[Len(arr)]
       IN IF \E i \in 1..Len(front) : front[i] = last
          THEN front
          ELSE Append(front, last)

\* Math.max(exactMatches, partialMatches) for one keyword.
keywordMatches(lowerText, keyword) ==
  Max(exactMatches(lowerText, toLowerCase(keyword)),
      partialMatches(lowerText, toLowerCase(keyword)))

\* The loop of findKeywordMatches over the keywords from index k on, with the
\* score and the matched keywords accumulated so far.
RECURSIVE keywordLoop(_, _, _, _, _)
keywordLoop(lowerText, keywords, k, score, matched) ==
  IF k > Len(keywords) THEN [score |-> score, keywords |-> matched]
  ELSE LET matches == keywordMatches(lowerText, keywords[k])
       IN IF matches > 0
          THEN keywordLoop(lowerText, keywords, k + 1, score + matches,
                           Append(matched, keywords[k]))
          ELSE keywordLoop(lowerText, keywords, k + 1, score, matched)

\* findKeywordMatches(text) with this.topicKeywords = keywords, when it returns.
findKeywordMatches(text, keywords) ==
  IF Len(text) = 0 \/ Len(keywords) = 0
  THEN [score |-> 0, keywords |-> << >>]
  ELSE keywordLoop(toLowerCase(text), keywords, 1, 0, << >>)

\* findKeywordMatches(text) throws: the text is searched and some keyword
\* does not compile as a pattern.
findKeywordMatchesThrows(text, keywords) ==
  /\ Len(text) > 0
  /\ \E k \in 1..Len(keywords) : RegExpThrows(toLowerCase(keywords[k]))

\* The three searched fields of a record: the text handed to
\* findKeywordMatches, or None when the field is skipped.
descriptionText(repo) ==
  IF IsSome(repo.description) /\ Len(Get(repo.description)) > 0
  THEN repo.description ELSE None

readmeText(repo) ==
  IF IsSome(repo.readmeContent) /\ Len(Get(repo.readmeContent)) > 0
  THEN repo.readmeContent ELSE None

topicsText(repo) ==
  IF IsSome(repo.topics) THEN Some(joinSpace(Get(repo.topics))) ELSE None

fieldMatches(field, keywords) ==
  IF IsSome(field) THEN findKeywordMatches(Get(field), keywords)
  ELSE [score |-> 0, keywords |-> << >>]

\* basicAnalysis(repo) throws.
basicAnalysisThrows(repo, keywords) ==
  \E field \in { descriptionText(repo), readmeText(repo), topicsText(repo) } :
    IsSome(field) /\ findKeywordMatchesThrows(Get(field), keywords)

\* relevanceScoreOf reading the summary counter of the batch as well.
relevanceScoreWithCounter(descMatches, readmeMatches, topicMatches) ==
  descMatches.score * DescriptionWeight
    + readmeMatches.score * ReadmeWeight
    + topicMatches.score * TopicWeight
    + aiSummaryCount

\* relevanceScoreOf counting the matches of the description alone.
relevanceScoreDescriptionOnly(descMatches, readmeMatches, topicMatches) ==
  descMatches.score * DescriptionWeight

\* relevanceScore as basicAnalysis adds it up.
relevanceScoreOf(descMatches, readmeMatches, topicMatches) ==
  descMatches.score * DescriptionWeight
    + readmeMatches.score * ReadmeWeight
    + topicMatches.score * TopicWeight

\* matchedKeywordsOf without the removal of duplicates.
matchedKeywordsWithDuplicates(descMatches, readmeMatches, topicMatches) ==
  descMatches.keywords \o readmeMatches.keywords \o topicMatches.keywords

\* matchedKeywords as basicAnalysis collects them.
matchedKeywordsOf(descMatches, readmeMatches, topicMatches) ==
  uniqueKeywords(descMatches.keywords \o readmeMatches.keywords
                   \o topicMatches.keywords)

\* basicAnalysis(repo) with this.topicKeywords = keywords, when it returns:
\* the record with relevanceScore, matchedKeywords and aiSummary: null.
basicAnalysis(repo, keywords) ==
  LET descMatches == fieldMatches(descriptionText(repo), keywords)
      readmeMatches == fieldMatches(readmeText(repo), keywords)
      topicMatches == fieldMatches(topicsText(repo), keywords)
  IN [ id |-> repo.id,
       name |-> repo.name,
       language |-> repo.language,
       description |-> repo.description,
       readmeContent |-> repo.readmeContent,
       topics |-> repo.topics,
       relevanceScore |-> relevanceScoreOf(descMatches, readmeMatches, topicMatches),
       matchedKeywords |-> matchedKeywordsOf(descMatches, readmeMatches, topicMatches),
       aiSummary |-> None ]

----------------------------------------------------------------------------
(* LanguageFilter. *)

\* The constructor: this.targetLanguages = targetLanguages.map(toLowerCase).
LanguageFilterNew(targetLanguages) ==
  [ i \in 1..Len(targetLanguages) |-> toLowerCase(targetLanguages[i]) ]

\* (repo.language || '').toLowerCase()
repoLanguage(repo) ==
  toLowerCase(IF IsSome(repo.language) THEN Get(repo.language) ELSE << >>)

\* this.targetLanguages.includes(repoLanguage): the callback of repos.filter.
languageMatches(targets, repo) ==
  \E i \in 1..Len(targets) : targets[i] = repoLanguage(repo)

\* Array.prototype.filter with that callback.
RECURSIVE filterByLanguage(_, _)
filterByLanguage(targets, repos) ==
  IF Len(repos) = 0 THEN << >>
  ELSE IF languageMatches(targets, Head(repos))
       THEN << Head(repos) >> \o filterByLanguage(targets, Tail(repos))
       ELSE filterByLanguage(targets, Tail(repos))

\* LanguageFilter.filter(repos), this.targetLanguages = targets.
filter(targets, repos) ==
  IF Len(targets) = 0 THEN repos
  ELSE filterByLanguage(targets, repos)

----------------------------------------------------------------------------
(* SmartAnalyzer: construction and summaries. *)

\* config.max_ai_summaries || 10
maxAISummariesOf(cfg) ==
  IF IsSome(cfg.max_ai_summaries) /\ Get(cfg.max_ai_summaries) # 0
  THEN Get(cfg.max_ai_summaries)
  ELSE DefaultMaxAISummaries

\* enableAISummariesOf without the switch-off for a missing API key.
enableAISummariesIgnoringKey(cfg, apiKey) ==
  cfg.enable_ai_summaries # Some(FALSE)

\* config.enable_ai_summaries !== false, then switched off without an API key.
enableAISummariesOf(cfg, apiKey) ==
  /\ cfg.enable_ai_summaries # Some(FALSE)
  /\ apiKey # ""

\* new SmartAnalyzer(config)
SmartAnalyzerNew(cfg, apiKey) ==
  [ topicKeywords |-> cfg.topic_keywords,
    enableAISummaries |-> enableAISummariesOf(cfg, apiKey),
    maxAISummaries |-> maxAISummariesOf(cfg),
    openaiApiKey |-> apiKey ]

\* summaryWanted without the test of the score.
summaryWantedAnyScore(an, analysisResult, count) ==
  /\ an.enableAISummaries
  /\ count < an.maxAISummaries

\* summaryWanted with <= for < in the test of the quota.
summaryWantedOffByOne(an, analysisResult, count) ==
  /\ an.enableAISummaries
  /\ analysisResult.relevanceScore > 0
  /\ count <= an.maxAISummaries

\* The condition of analyzeSingleRepo under which generateAISummary is called.
summaryWanted(an, analysisResult, count) ==
  /\ an.enableAISummaries
  /\ analysisResult.relevanceScore > 0
  /\ count < an.maxAISummaries

\* analyzeSingleRepo(repo, aiSummaryCount), when basicAnalysis returns;
\* generated says whether the call of generateAISummary, if made, returned.
analyzeSingleRepo(an, repo, count, generated) ==
  LET analysisResult == basicAnalysis(repo, an.topicKeywords)
  IN IF summaryWanted(an, analysisResult, count) /\ generated
     THEN [analysisResult EXCEPT !.aiSummary = Some("summary")]
     ELSE analysisResult

\* countAfter counting every record that was eligible, summarized or not.
countAfterEligible(count, analyzedRepo) ==
  IF analyzedRepo.relevanceScore > 0 THEN count + 1 ELSE count

\* if (analyzedRepo.aiSummary) aiSummaryCount++
countAfter(count, analyzedRepo) ==
  IF IsSome(analyzedRepo.aiSummary) THEN count + 1 ELSE count

----------------------------------------------------------------------------
(* The trending repositories and what GitHub serves for them. *)

\* A record of the trending list, as the extractor produces it.
RepositoryRecord(id, name, language, description) ==
  [ id |-> id, name |-> name, language |-> language,
    description |-> description, readmeContent |-> None, topics |-> None ]

\* The repositories that trend in a pipeline run.
RepoName == { "o/hit", "o/misc" }

languageOnPage(name) ==
  IF name = "o/hit" THEN Some(<< "P", "y" >>) ELSE Some(<< "r", "s" >>)

descriptionOnPage(name) ==
  IF name = "o/hit" THEN Some(<< "a", " ", "B" >>) ELSE None

\* The README text GitHub serves for a repository.
readmeOnGitHub(name) ==
  IF name = "o/hit" THEN << "a" >> ELSE << "B", " ", "a" >>

\* The topics GitHub serves for a repository.
topicsOnGitHub(name) ==
  IF name = "o/hit" THEN << << "a" >> >> ELSE << >>

\* The trending list with these names: a record's id is its place in the list.
trendingList(names) ==
  [ i \in 1..Len(names) |->
      RepositoryRecord(i, names[i], languageOnPage(names[i]),
                       descriptionOnPage(names[i])) ]

----------------------------------------------------------------------------
(* ContentEnricher. *)

\* How the requests of enrichSingleRepo for one record end.
EnrichOutcome == { "ok", "notFound", "rateLimited", "error" }

\* getReadmeContent returning the whole document.
getReadmeContentWhole(document) == document

\* getReadmeContent(owner, repo) when the request is answered with this
\* document: content.substring(0, 5000).
getReadmeContent(document) ==
  SubSeq(document, 1, Min(Len(document), ReadmeLimit))

\* enrichSingleRepo giving a record whose requests failed empty fields.
enrichSingleRepoEmptyFields(repo, outcome) ==
  IF outcome = "ok"
  THEN [repo EXCEPT !.readmeContent = Some(getReadmeContent(githubReadme[repo.name])),
                    !.topics = Some(topicsOnGitHub(repo.name))]
  ELSE [repo EXCEPT !.readmeContent = Some(<< >>), !.topics = Some(<< >>)]

\* enrichSingleRepo keeping the README text when a request fails.
enrichSingleRepoKeepsReadme(repo, outcome) ==
  IF outcome = "ok"
  THEN [repo EXCEPT !.readmeContent = Some(getReadmeContent(githubReadme[repo.name])),
                    !.topics = Some(topicsOnGitHub(repo.name))]
  ELSE [repo EXCEPT !.readmeContent = Some(getReadmeContent(githubReadme[repo.name]))]

\* enrichSingleRepo(repo): the record with readmeContent and topics when both
\* requests are answered, the record as it was otherwise.
enrichSingleRepo(repo, outcome) ==
  IF outcome = "ok"
  THEN [repo EXCEPT !.readmeContent = Some(getReadmeContent(githubReadme[repo.name])),
                    !.topics = Some(topicsOnGitHub(repo.name))]
  ELSE repo

----------------------------------------------------------------------------
(* RadarGitHubAPI and the token check of PersonalizedRadar. *)

\* possibleTokenNames
TokenName == { "GITHUB_TOKEN", "GITHUB_TOKEN_BOT", "GITHUB_TOKEN_VITALETS" }

\* getGitHubToken finding a token although none is set.
getGitHubTokenAssumed(tokens) == TRUE

\* getGitHubToken() returns a token: one of the three names is set.
getGitHubToken(tokens) == \E name \in TokenName : name \in tokens

----------------------------------------------------------------------------
(* RadarFormatter. *)

\* config.min_relevance_score || 1
minRelevanceScoreOf(cfg) ==
  IF IsSome(cfg.min_relevance_score) /\ Get(cfg.min_relevance_score) # 0
  THEN Get(cfg.min_relevance_score)
  ELSE DefaultMinRelevanceScore

\* new RadarFormatter(config)
RadarFormatterNew(cfg) ==
  [ config |-> cfg, minRelevanceScore |-> minRelevanceScoreOf(cfg) ]

\* A sort that leaves the records in the order it finds them.
keepOrder(repos) == repos

\* Array.prototype.sort((a, b) => b.relevanceScore - a.relevanceScore): by
\* score from high to low, records of equal score in their former order.
RECURSIVE sortByScore(_)
sortByScore(repos) ==
  IF Len(repos) = 0 THEN << >>
  ELSE LET front == sortByScore(SubSeq(repos, 1, Len(repos) - 1))
           last == repos[Len(repos)]
           ahead == SelectSeq(front, LAMBDA r : r.relevanceScore >= last.relevanceScore)
           behind == SelectSeq(front, LAMBDA r : r.relevanceScore < last.relevanceScore)
       IN ahead \o << last >> \o behind

\* formatNoResults(): the report names no repository.
formatNoResults(fm) ==
  [ kind |-> "noResults", count |-> None, minRelevanceScore |-> None,
    repos |-> << >> ]

\* formatResults(relevantRepos): the header with the number of repositories
\* and the minimum relevance score, then one section for each repository.
formatResults(fm, relevantRepos) ==
  [ kind |-> "results", count |-> Some(Len(relevantRepos)),
    minRelevanceScore |-> Some(fm.minRelevanceScore),
    repos |-> relevantRepos ]

\* format(analyzedRepos) of the formatter fm: what the report says, without
\* its date and its wording.
format(fm, repos) ==
  LET relevantRepos ==
        sortByScore(SelectSeq(repos,
                              LAMBDA r : r.relevanceScore >= fm.minRelevanceScore))
  IN IF Len(relevantRepos) = 0
     THEN formatNoResults(fm)
     ELSE formatResults(fm, relevantRepos)

----------------------------------------------------------------------------
(* The orchestrators: StandaloneRadar.analyzeRepos and                      *)
(* PersonalizedRadar.analyzeRepos.                                          *)

Radar == { "standalone", "personalized" }

\* The longest trending list a run of this radar is given.
maxTrending == IF radar = "standalone" THEN MaxRepos ELSE MaxPersonalizedRepos

batchSize == IF radar = "standalone" THEN StandaloneBatchSize ELSE PersonalizedBatchSize

\* batches.length
numBatches == (Len(filteredRepos) + batchSize - 1) \div batchSize

\* batches[i] = this.filteredRepos.slice(i * batchSize, i * batchSize + batchSize)
batchAt(i) ==
  SubSeq(filteredRepos, i * batchSize + 1,
         Min(i * batchSize + batchSize, Len(filteredRepos)))

batch == batchAt(batchIdx)

\* The analyzer before it is constructed.
NoAnalyzer ==
  [ topicKeywords |-> << >>, enableAISummaries |-> FALSE,
    maxAISummaries |-> 0, openaiApiKey |-> "" ]

\* analyzeRepos up to the batch loop: the language filter, the enricher with
\* its API client (which needs a token), the analyzer, the batches.
StartAnalysis ==
  /\ pc = "start"
  /\ getGitHubToken(githubTokens)
  /\ filteredRepos' = filter(LanguageFilterNew(config.target_languages), allRepos)
  /\ analyzer' = SmartAnalyzerNew(config, openaiKey)
  /\ batchIdx' = 0
  /\ pos' = 0
  /\ pc' = IF Len(filteredRepos') = 0 THEN "done" ELSE "enrich"
  /\ batchStarts' = IF Len(filteredRepos') = 0 THEN << >> ELSE << 0 >>
  /\ UNCHANGED << radar, config, openaiKey, allRepos, analysisResults,
                  enrichedRepos, analyzedRepos, aiSummaryCount, genTrace,
                  genCalls, failedBatches, envVars, finalReport, enrichedIds,
                  scoredIds, rested, enrichTrace, integration >>

\* new ContentEnricher() throws in analyzeRepos: the constructor of
\* RadarGitHubAPI finds no token.  The language filter has run by then.
StartAnalysisFails ==
  /\ pc = "start"
  /\ ~getGitHubToken(githubTokens)
  /\ filteredRepos' = filter(LanguageFilterNew(config.target_languages), allRepos)
  /\ pc' = "rejected"
  /\ UNCHANGED << radar, config, openaiKey, allRepos, analysisResults, analyzer,
                  batchIdx, pos, enrichedRepos, analyzedRepos, aiSummaryCount,
                  genTrace, genCalls, failedBatches, envVars, finalReport,
                  loopHistory, integration >>

\* One iteration of the loop of enrichBatch, the requests for the record
\* ending with this outcome.
EnrichRecordWith(outcome) ==
  /\ pc = "enrich"
  /\ pos < Len(batch)
  /\ enrichedRepos' = Append(enrichedRepos, enrichSingleRepo(batch[pos + 1], outcome))
  /\ pos' = pos + 1
  /\ enrichedIds' = enrichedIds \cup { batch[pos + 1].id }
  /\ rested' = FALSE
  /\ UNCHANGED << radar, config, openaiKey, allRepos, filteredRepos,
                  analysisResults, analyzer, pc, batchIdx, analyzedRepos,
                  aiSummaryCount, genTrace, genCalls, failedBatches, envVars,
                  finalReport, batchStarts, scoredIds, integration >>

\* One iteration of the loop of enrichBatch.
EnrichRecord ==
  /\ \E outcome \in EnrichOutcome : EnrichRecordWith(outcome)
  /\ UNCHANGED enrichTrace

\* enrichBatch leaving its loop after the first record.
enrichBatchReturnsEarly == pos >= 1

\* The loop of enrichBatch has gone through the batch.
enrichBatchReturns == pos = Len(batch)

\* enrichBatch returns and analyzeBatch starts: analyzedRepos = [],
\* aiSummaryCount = 0.
BeginAnalyzeBatch ==
  /\ pc = "enrich"
  /\ enrichBatchReturns
  /\ pc' = "analyze"
  /\ pos' = 0
  /\ analyzedRepos' = << >>
  /\ aiSummaryCount' = 0
  /\ genTrace' = << >>
  /\ UNCHANGED << radar, config, openaiKey, allRepos, filteredRepos,
                  analysisResults, analyzer, batchIdx, enrichedRepos,
                  genCalls, failedBatches, envVars, finalReport, loopHistory,
                  integration >>

\* The record the loop of analyzeBatch is at.
currentRepo == enrichedRepos[pos + 1]

\* One iteration of the loop of analyzeBatch in which analyzeSingleRepo
\* returns; called says whether generateAISummary is called, generated whether
\* it returns a summary.
AnalyzeReturns(called, generated) ==
  LET analyzedRepo == analyzeSingleRepo(analyzer, currentRepo, aiSummaryCount, generated)
  IN /\ pc = "analyze"
     /\ pos < Len(enrichedRepos)
     /\ ~basicAnalysisThrows(currentRepo, analyzer.topicKeywords)
     /\ called = summaryWanted(analyzer,
                               basicAnalysis(currentRepo, analyzer.topicKeywords),
                               aiSummaryCount)
     /\ analyzedRepos' = Append(analyzedRepos, analyzedRepo)
     /\ aiSummaryCount' = countAfter(aiSummaryCount, analyzedRepo)
     /\ genTrace' = Append(genTrace, IF ~called THEN "none"
                                     ELSE IF generated THEN "ok" ELSE "failed")
     /\ genCalls' = IF called THEN genCalls + 1 ELSE genCalls
     /\ pos' = pos + 1
     /\ scoredIds' = scoredIds \cup { currentRepo.id }
     /\ UNCHANGED << radar, config, openaiKey, allRepos, filteredRepos,
                     analysisResults, analyzer, pc, batchIdx, enrichedRepos,
                     failedBatches, envVars, finalReport, batchStarts,
                     enrichedIds, rested, enrichTrace, integration >>

\* The record is analyzed without a call of generateAISummary.
AnalyzeNoSummary == AnalyzeReturns(FALSE, FALSE)

\* generateAISummary is called and returns the summary.
AnalyzeSummaryGenerated == AnalyzeReturns(TRUE, TRUE)

\* generateAISummary is called and throws; analyzeSingleRepo catches it.
AnalyzeSummaryFails == AnalyzeReturns(TRUE, FALSE)

\* enrichBatch and analyzeBatch are over: their locals are gone.
batchLocalsGone ==
  /\ pos' = 0
  /\ enrichedRepos' = << >>
  /\ analyzedRepos' = << >>
  /\ aiSummaryCount' = 0
  /\ genTrace' = << >>

\* The loop of the orchestrator moves to batch i + 1, or ends.
toNextBatch ==
  /\ batchIdx' = batchIdx + 1
  /\ pc' = IF batchIdx + 1 < numBatches THEN "enrich" ELSE "done"
  /\ batchStarts' = IF batchIdx + 1 < numBatches
                    THEN Append(batchStarts, batchIdx + 1) ELSE batchStarts

\* basicAnalysis throws in analyzeSingleRepo; the catch of analyzeBatch calls
\* basicAnalysis again, which throws again, and analyzeBatch rejects.  The
\* standalone radar catches that and goes on with the next batch.
AnalyzeThrowsStandalone ==
  /\ pc = "analyze"
  /\ pos < Len(enrichedRepos)
  /\ basicAnalysisThrows(currentRepo, analyzer.topicKeywords)
  /\ radar = "standalone"
  /\ failedBatches' = failedBatches \cup { batchIdx }
  /\ batchLocalsGone
  /\ toNextBatch
  /\ UNCHANGED << radar, config, openaiKey, allRepos, filteredRepos,
                  analysisResults, analyzer, genCalls, envVars, finalReport,
                  enrichedIds, scoredIds, rested, enrichTrace, integration >>

\* The personalized radar has no catch in its batch loop: analyzeRepos rejects.
AnalyzeThrowsPersonalized ==
  /\ pc = "analyze"
  /\ pos < Len(enrichedRepos)
  /\ basicAnalysisThrows(currentRepo, analyzer.topicKeywords)
  /\ radar = "personalized"
  /\ failedBatches' = failedBatches \cup { batchIdx }
  /\ pc' = "rejected"
  /\ UNCHANGED << radar, config, openaiKey, allRepos, filteredRepos,
                  analysisResults, analyzer, batchIdx, pos, enrichedRepos,
                  analyzedRepos, aiSummaryCount, genTrace, genCalls, envVars,
                  finalReport, loopHistory, integration >>

\* pushResults leaving out the records of score 0.
pushRelevant(results, analyzedBatch) ==
  results \o SelectSeq(analyzedBatch, LAMBDA r : r.relevanceScore > 0)

\* this.analysisResults.push(...analyzedBatch)
pushResults(results, analyzedBatch) == results \o analyzedBatch

\* analyzeBatch returns: this.analysisResults.push(...analyzedBatch); then the
\* delay if a batch follows.
FinishBatch ==
  /\ pc = "analyze"
  /\ pos = Len(enrichedRepos)
  /\ analysisResults' = pushResults(analysisResults, analyzedRepos)
  /\ batchLocalsGone
  /\ IF batchIdx < numBatches - 1
     THEN pc' = "delay" /\ batchIdx' = batchIdx /\ batchStarts' = batchStarts
     ELSE toNextBatch
  /\ UNCHANGED << radar, config, openaiKey, allRepos, filteredRepos,
                  analyzer, genCalls, failedBatches, envVars, finalReport,
                  enrichedIds, scoredIds, rested, enrichTrace, integration >>

\* The delay between two batches ends.
Delay ==
  /\ pc = "delay"
  /\ toNextBatch
  /\ rested' = TRUE
  /\ UNCHANGED << radar, config, openaiKey, allRepos, filteredRepos,
                  analysisResults, analyzer, pos, enrichedRepos, analyzedRepos,
                  aiSummaryCount, genTrace, genCalls, failedBatches, envVars,
                  finalReport, enrichedIds, scoredIds, enrichTrace,
                  integration >>

\* formatReport with a formatter that sorts the array it is given.
FormatReportSortsInPlace ==
  /\ pc = "done"
  /\ finalReport' = Some(format(RadarFormatterNew(config), analysisResults))
  /\ analysisResults' = sortByScore(analysisResults)
  /\ pc' = "formatted"
  /\ UNCHANGED << radar, config, openaiKey, allRepos, filteredRepos,
                  analyzer, batchIdx, pos, enrichedRepos,
                  analyzedRepos, aiSummaryCount, genTrace, genCalls,
                  failedBatches, envVars, loopHistory, integration >>

\* formatReport: formatter = new RadarFormatter(this.config), then
\* this.finalReport = formatter.format(this.analysisResults).
FormatReport ==
  /\ pc = "done"
  /\ finalReport' = Some(format(RadarFormatterNew(config), analysisResults))
  /\ pc' = "formatted"
  /\ UNCHANGED << radar, config, openaiKey, allRepos, filteredRepos,
                  analysisResults, analyzer, batchIdx, pos, enrichedRepos,
                  analyzedRepos, aiSummaryCount, genTrace, genCalls,
                  failedBatches, envVars, loopHistory, integration >>

\* displayReport or postReport returns, and run() with it.
EmitReport ==
  /\ pc = "formatted"
  /\ pc' = "completed"
  /\ UNCHANGED << radar, config, openaiKey, allRepos, filteredRepos,
                  analysisResults, analyzer, batchIdx, pos, enrichedRepos,
                  analyzedRepos, aiSummaryCount, genTrace, genCalls,
                  failedBatches, envVars, finalReport, loopHistory,
                  integration >>

\* postReport throws: no target issue is found, or the comment is refused.
PostReportFails ==
  /\ pc = "formatted"
  /\ radar = "personalized"
  /\ pc' = "rejected"
  /\ UNCHANGED << radar, config, openaiKey, allRepos, filteredRepos,
                  analysisResults, analyzer, batchIdx, pos, enrichedRepos,
                  analyzedRepos, aiSummaryCount, genTrace, genCalls,
                  failedBatches, envVars, finalReport, loopHistory,
                  integration >>

----------------------------------------------------------------------------
(* A pipeline run: configuration loaded, trending list extracted. *)

Config(targets, keywords, enable, maxSummaries) ==
  [ target_languages |-> targets, topic_keywords |-> keywords,
    enable_ai_summaries |-> enable, max_ai_summaries |-> maxSummaries,
    min_relevance_score |-> None ]

\* The configurations of a pipeline run.
RunTargets == { << >>, << << "p", "y" >> >> }
RunKeywords == { << >>, << << "A" >> >>, << << "C", "+", "+" >> >> }

\* enable_ai_summaries, max_ai_summaries and OPENAI_API_KEY of a run: every
\* quota with summaries left on by default, and the two ways to have them
\* off, switched off or set without a key.
RunSummarySettings ==
  { [enable |-> None, maxSummaries |-> m, apiKey |-> "sk"] :
      m \in { None, Some(0), Some(1), Some(2) } }
  \cup { [enable |-> Some(FALSE), maxSummaries |-> Some(1), apiKey |-> "sk"],
         [enable |-> Some(TRUE), maxSummaries |-> Some(1), apiKey |-> ""] }

Init ==
  /\ radar \in Radar
  /\ \E t \in RunTargets, k \in RunKeywords, s \in RunSummarySettings :
       /\ config = Config(t, k, s.enable, s.maxSummaries)
       /\ openaiKey = s.apiKey
  /\ allRepos \in { trendingList(names) : names \in SeqsUpTo(RepoName, maxTrending) }
  /\ filteredRepos = << >>
  /\ analysisResults = << >>
  /\ analyzer = NoAnalyzer
  /\ pc = "start"
  /\ batchIdx = 0
  /\ pos = 0
  /\ enrichedRepos = << >>
  /\ analyzedRepos = << >>
  /\ aiSummaryCount = 0
  /\ genTrace = << >>
  /\ genCalls = 0
  /\ failedBatches = { }
  /\ configFile = TRUE
  /\ githubTokens = { "GITHUB_TOKEN" }
  /\ githubReadme = [ name \in RepoName |-> readmeOnGitHub(name) ]
  /\ finalReport = None
  /\ batchStarts = << >>
  /\ enrichedIds = { }
  /\ scoredIds = { }
  /\ rested = FALSE
  /\ enrichTrace = << >>
  /\ notIntegrated

Next ==
  \/ StartAnalysis
  \/ EnrichRecord
  \/ BeginAnalyzeBatch
  \/ AnalyzeNoSummary
  \/ AnalyzeSummaryGenerated
  \/ AnalyzeSummaryFails
  \/ AnalyzeThrowsStandalone
  \/ AnalyzeThrowsPersonalized
  \/ FinishBatch
  \/ Delay
  \/ FormatReport
  \/ EmitReport
  \/ PostReportFails

Spec == Init /\ [][Next]_vars

----------------------------------------------------------------------------
(* Properties of a pipeline run. *)

hasSummary(rec) == IsSome(rec.aiSummary)

\* The records analyzed so far in this run, returned batches first.
analyzedSoFar == analysisResults \o analyzedRepos

\* analyzeBatch has gone through the whole batch and is about to return.
batchAnalyzed == pc = "analyze" /\ pos = Len(enrichedRepos)

\* C1: over one run of analyzeRepos the records of analysisResults that carry
\* a summary never number more than the quota the analyzer works with.
C1_RunQuota ==
  pc # "start" => CountIf(analysisResults, hasSummary) <= analyzer.maxAISummaries

\* C2: a record whose relevanceScore is 0 has no summary, whatever the quota,
\* the enable flag and the summaries issued so far.
C2_ZeroScoreNoSummary ==
  \A i \in 1..Len(analyzedSoFar) :
    analyzedSoFar[i].relevanceScore = 0 => analyzedSoFar[i].aiSummary = None

\* C2 witness: summaries are on with quota left, and a zero-score record has
\* been analyzed after a record that was summarized.
C2_Witness ==
  /\ pc = "analyze"
  /\ analyzer.enableAISummaries
  /\ aiSummaryCount < analyzer.maxAISummaries
  /\ \E i, j \in 1..Len(analyzedRepos) :
       /\ i < j
       /\ hasSummary(analyzedRepos[i])
       /\ analyzedRepos[j].relevanceScore = 0

\* C3: when generateAISummary fails for a record of a batch, the record is
\* returned as basicAnalysis scored it with its summary absent, no record of
\* the batch is skipped or lost, and aiSummaryCount counts the generated
\* summaries only, so the failure uses no quota.
C3_FailureIsolated ==
  pc = "analyze" =>
    /\ Len(enrichedRepos) = Len(batch)
    /\ Len(analyzedRepos) = pos
    /\ Len(genTrace) = pos
    /\ aiSummaryCount = CountIf(genTrace, LAMBDA g : g = "ok")
    /\ \A k \in 1..pos :
         genTrace[k] = "failed" =>
           /\ analyzedRepos[k].aiSummary = None
           /\ analyzedRepos[k].relevanceScore > 0
           /\ analyzedRepos[k] = basicAnalysis(enrichedRepos[k], analyzer.topicKeywords)

\* C3 witness: with a quota of one, generation failed for a record and a
\* later record of the same batch got the summary.
C3_Witness ==
  /\ pc = "analyze"
  /\ analyzer.maxAISummaries = 1
  /\ \E i, j \in 1..Len(genTrace) :
       /\ i < j
       /\ genTrace[i] = "failed"
       /\ genTrace[j] = "ok"
       /\ hasSummary(analyzedRepos[j])

\* The quota of the configuration: max_ai_summaries, 10 when it is not set.
configuredQuota ==
  IF IsSome(config.max_ai_summaries) THEN Get(config.max_ai_summaries)
  ELSE DefaultMaxAISummaries

\* C4: in one batch with summaries on, no generation failure and a quota
\* q >= 1, exactly min(k, q) records have a summary, k the number of records
\* of score > 0.
C4_BatchSummaries ==
  ( /\ batchAnalyzed
    /\ analyzer.enableAISummaries
    /\ configuredQuota >= 1
    /\ \A k \in 1..Len(genTrace) : genTrace[k] # "failed" )
  => CountIf(analyzedRepos, hasSummary)
       = Min(CountIf(analyzedRepos, LAMBDA r : r.relevanceScore > 0), configuredQuota)

\* C4 witness: quota 1, a batch with two records of score > 0, generation
\* never failed: one of the two has the summary.
C4_Witness ==
  /\ batchAnalyzed
  /\ analyzer.enableAISummaries
  /\ configuredQuota = 1
  /\ \A k \in 1..Len(genTrace) : genTrace[k] # "failed"
  /\ CountIf(analyzedRepos, LAMBDA r : r.relevanceScore > 0) = 2
  /\ CountIf(analyzedRepos, hasSummary) = 1

\* Summaries are disabled: enable_ai_summaries is false or there is no API key.
summariesDisabled == config.enable_ai_summaries = Some(FALSE) \/ openaiKey = ""

\* C5: with summaries disabled generateAISummary is never called and no
\* analyzed record carries a summary.
C5_DisabledNoSummaries ==
  (summariesDisabled /\ pc # "start") =>
    /\ genCalls = 0
    /\ \A i \in 1..Len(analyzedSoFar) : ~hasSummary(analyzedSoFar[i])

\* C5 witness: a run without an API key has ended with a record of score > 0
\* in its results.
C5_Witness ==
  /\ pc = "done"
  /\ openaiKey = ""
  /\ config.enable_ai_summaries # Some(FALSE)
  /\ \E i \in 1..Len(analysisResults) : analysisResults[i].relevanceScore > 0

\* Two analyzed records were scored on the same text fields.
sameText(x, y) ==
  /\ x.description = y.description
  /\ x.readmeContent = y.readmeContent
  /\ x.topics = y.topics

----------------------------------------------------------------------------
(* LanguageFilter.filter on its own: any target list, any list of records. *)

\* Language tags of trending records, and configured target languages.
LanguageTag == { << >>, << "p", "y" >>, << "P", "y" >>, << "r", "s" >> }
TargetLanguage == { << >>, << "p", "y" >>, << "P", "Y" >>, << "r", "s" >> }

\* The settings the filter and the scorer do not read.
NoSummaries == [enable |-> Some(FALSE), maxSummaries |-> None, apiKey |-> ""]

\* Everything of a run but config, allRepos and pc, as a run starts.
restAtStart ==
  /\ radar = "standalone"
  /\ openaiKey = NoSummaries.apiKey
  /\ filteredRepos = << >>
  /\ analysisResults = << >>
  /\ analyzer = NoAnalyzer
  /\ batchIdx = 0
  /\ pos = 0
  /\ enrichedRepos = << >>
  /\ analyzedRepos = << >>
  /\ aiSummaryCount = 0
  /\ genTrace = << >>
  /\ genCalls = 0
  /\ failedBatches = { }
  /\ configFile = TRUE
  /\ githubTokens = { "GITHUB_TOKEN" }
  /\ githubReadme = [ name \in { "o/r" } |-> << >> ]
  /\ finalReport = None
  /\ batchStarts = << >>
  /\ enrichedIds = { }
  /\ scoredIds = { }
  /\ rested = FALSE
  /\ enrichTrace = << >>
  /\ notIntegrated

InitFilter ==
  /\ \E t \in SeqsUpTo(TargetLanguage, MaxTargets) :
       config = Config(t, << >>, NoSummaries.enable, NoSummaries.maxSummaries)
  /\ \E langs \in SeqsUpTo({ None } \cup { Some(l) : l \in LanguageTag }, MaxFilterRepos) :
       allRepos = [ i \in 1..Len(langs) |-> RepositoryRecord(i, "o/r", langs[i], None) ]
  /\ pc = "filter"
  /\ restAtStart

\* new LanguageFilter(config.target_languages).filter(this.allRepos)
FilterRepos ==
  /\ pc = "filter"
  /\ filteredRepos' = filter(LanguageFilterNew(config.target_languages), allRepos)
  /\ pc' = "filtered"
  /\ UNCHANGED << radar, config, openaiKey, allRepos, analysisResults, analyzer,
                  batchIdx, pos, enrichedRepos, analyzedRepos, aiSummaryCount,
                  genTrace, genCalls, failedBatches, envVars, finalReport,
                  loopHistory, integration >>

NextFilter == FilterRepos

SpecFilter == InitFilter /\ [][NextFilter]_vars

\* The language tag of the record is a member of the configured target set,
\* compared without regard to case.
tagIsTarget(rec) ==
  /\ IsSome(rec.language)
  /\ \E i \in 1..Len(config.target_languages) :
       toLowerCase(config.target_languages[i]) = toLowerCase(Get(rec.language))

\* C6: filter returns its input when no target language is configured, and
\* otherwise exactly the records whose language tag is a member of the target
\* set, in input order.
C6_FilterExact ==
  pc = "filtered" =>
    filteredRepos = IF Len(config.target_languages) = 0 THEN allRepos
                    ELSE SelectSeq(allRepos, tagIsTarget)

\* C7: with a non-empty target list, no record with a missing or empty
\* language tag is in the output of filter.
C7_NoTagNeverKept ==
  (pc = "filtered" /\ Len(config.target_languages) > 0) =>
    \A i \in 1..Len(filteredRepos) :
      IsSome(filteredRepos[i].language) /\ Len(Get(filteredRepos[i].language)) > 0

----------------------------------------------------------------------------
(* SmartAnalyzer.basicAnalysis on its own: any keyword list of the pool, any *)
(* description, with and without README text and topics.                    *)

\* Configured keywords: a word in either case, a phrase, and keywords with
\* characters that are pattern syntax.
Keyword ==
  { << "A" >>, << "b" >>, << "A", " ", "b" >>, << "." >>, << "A", "+" >>,
    << "C", "+", "+" >> }

TextChar == { "a", "B", " " }

ScoredReadme == { None, Some(<< "B", " ", "a" >>) }
ScoredTopics == { None, Some(<< >>), Some(<< << "a" >>, << "B" >> >>) }

InitScore ==
  /\ \E k \in SeqsUpTo(Keyword, MaxKeywords) :
       config = Config(<< >>, k, NoSummaries.enable, NoSummaries.maxSummaries)
  /\ \E d \in { None } \cup { Some(t) : t \in SeqsUpTo(TextChar, MaxTextLen) },
        r \in ScoredReadme, t \in ScoredTopics :
       allRepos = << [RepositoryRecord(1, "o/r", None, d)
                       EXCEPT !.readmeContent = r, !.topics = t] >>
  /\ pc = "score"
  /\ restAtStart

\* new SmartAnalyzer(config).basicAnalysis(repo) returns.
ScoreReturns ==
  /\ pc = "score"
  /\ analyzer' = SmartAnalyzerNew(config, openaiKey)
  /\ ~basicAnalysisThrows(allRepos[1], analyzer'.topicKeywords)
  /\ analysisResults' = << basicAnalysis(allRepos[1], analyzer'.topicKeywords) >>
  /\ pc' = "scored"
  /\ UNCHANGED << radar, config, openaiKey, allRepos, filteredRepos, batchIdx,
                  pos, enrichedRepos, analyzedRepos, aiSummaryCount, genTrace,
                  genCalls, failedBatches, envVars, finalReport, loopHistory,
                  integration >>

\* new SmartAnalyzer(config).basicAnalysis(repo) throws.
ScoreThrows ==
  /\ pc = "score"
  /\ analyzer' = SmartAnalyzerNew(config, openaiKey)
  /\ basicAnalysisThrows(allRepos[1], analyzer'.topicKeywords)
  /\ pc' = "threw"
  /\ UNCHANGED << radar, config, openaiKey, allRepos, filteredRepos,
                  analysisResults, batchIdx, pos, enrichedRepos, analyzedRepos,
                  aiSummaryCount, genTrace, genCalls, failedBatches, envVars,
                  finalReport, loopHistory, integration >>

NextScore == ScoreReturns \/ ScoreThrows

SpecScore == InitScore /\ [][NextScore]_vars

\* The keyword stands in the text at offset p, compared without regard to case.
occursAt(text, keyword, p) ==
  /\ p + Len(keyword) <= Len(text)
  /\ \A i \in 1..Len(keyword) : LowerChar(text[p + i]) = LowerChar(keyword[i])

\* Occurrences of the keyword in the text from offset p on, counted left to
\* right without overlap; wholeWord counts those between word boundaries.
RECURSIVE occurrences(_, _, _, _)
occurrences(text, keyword, p, wholeWord) ==
  IF Len(keyword) = 0 \/ p + Len(keyword) > Len(text) THEN 0
  ELSE IF /\ occursAt(text, keyword, p)
          /\ wholeWord => /\ AtWordBoundary(text, p)
                          /\ AtWordBoundary(text, p + Len(keyword))
       THEN 1 + occurrences(text, keyword, p + Len(keyword), wholeWord)
       ELSE occurrences(text, keyword, p + 1, wholeWord)

\* max(whole-word occurrence count, substring occurrence count), summed over
\* the keywords from index k on.
RECURSIVE occurrenceSum(_, _, _)
occurrenceSum(text, keywords, k) ==
  IF k > Len(keywords) THEN 0
  ELSE Max(occurrences(text, keywords[k], 0, TRUE),
           occurrences(text, keywords[k], 0, FALSE))
         + occurrenceSum(text, keywords, k + 1)

\* D, R and T of a record: 0 for an absent field.
occurrencesIn(field, keywords) ==
  IF IsSome(field) THEN occurrenceSum(Get(field), keywords, 1) ELSE 0

\* C8: basicAnalysis returns, and relevanceScore = 5*D + 1*R + 3*T for the
\* occurrence counts D, R, T of the keywords in the description, the README
\* text and the topics joined by spaces.
C8_ScoreFormula ==
  /\ pc # "threw"
  /\ pc = "scored" =>
       analysisResults[1].relevanceScore
         = 5 * occurrencesIn(allRepos[1].description, config.topic_keywords)
           + occurrencesIn(allRepos[1].readmeContent, config.topic_keywords)
           + 3 * occurrencesIn(IF IsSome(allRepos[1].topics)
                               THEN Some(joinSpace(Get(allRepos[1].topics)))
                               ELSE None,
                               config.topic_keywords)

\* A sequence without a repeated element.
noDuplicates(arr) ==
  \A i, j \in 1..Len(arr) : arr[i] = arr[j] => i = j

\* C10: matchedKeywords never holds a keyword twice, and is no longer than
\* the configured keyword list.
C10_MatchedKeywordsUnique ==
  pc = "scored" =>
    /\ noDuplicates(analysisResults[1].matchedKeywords)
    /\ Len(analysisResults[1].matchedKeywords) <= Len(config.topic_keywords)

\* C10 witness: the same keyword is configured twice and occurs in the
\* description and in the README text; it is matched once.
C10_Witness ==
  /\ pc = "scored"
  /\ Len(config.topic_keywords) = 2
  /\ config.topic_keywords[1] = config.topic_keywords[2]
  /\ occurrencesIn(allRepos[1].description, config.topic_keywords) > 0
  /\ occurrencesIn(allRepos[1].readmeContent, config.topic_keywords) > 0
  /\ Len(analysisResults[1].matchedKeywords) = 1

\* The place of the first occurrence of x in arr.
firstIndex(arr, x) ==
  CHOOSE i \in 1..Len(arr) : arr[i] = x /\ \A j \in 1..(i - 1) : arr[j] # x

\* C11: matchedKeywords follows the order of the configured keyword list: of
\* two matched keywords the one configured earlier stands earlier, in
\* whichever fields the two were matched.
C11_ConfigurationOrder ==
  pc = "scored" =>
    LET matched == analysisResults[1].matchedKeywords
    IN \A a, b \in 1..Len(matched) :
         firstIndex(config.topic_keywords, matched[a])
           < firstIndex(config.topic_keywords, matched[b]) => a < b

----------------------------------------------------------------------------
(* ContentEnricher.enrichBatch on its own: any batch of the two repositories *)
(* below, any outcome of the requests for each record, README documents of   *)
(* lengths around 0 and around the limit of getReadmeContent.                *)

\* "o/r" has the README document drawn for the run, "o/s" a short one.
EnrichRepoName == { "o/r", "o/s" }

\* A document of n characters whose characters differ from place to place.
document(n) ==
  [ i \in 1..n |-> IF i > ReadmeLimit THEN " " ELSE IF i % 2 = 1 THEN "a" ELSE "B" ]

\* The lengths of the README document of "o/r".
ReadmeLength ==
  (0..MaxReadmeExcess)
    \cup ((ReadmeLimit - MaxReadmeExcess)..(ReadmeLimit + MaxReadmeExcess))

InitEnrich ==
  /\ radar = "standalone"
  /\ config = Config(<< >>, << >>, NoSummaries.enable, NoSummaries.maxSummaries)
  /\ openaiKey = NoSummaries.apiKey
  /\ \E names \in SeqsUpTo(EnrichRepoName, MaxEnrichRepos) :
       /\ Len(names) > 0
       /\ allRepos = [ i \in 1..Len(names) |->
                         RepositoryRecord(i, names[i], None, Some(<< "a" >>)) ]
  /\ filteredRepos = allRepos
  /\ \E n \in ReadmeLength :
       githubReadme = [ name \in EnrichRepoName |->
                          IF name = "o/r" THEN document(n) ELSE << "B", " ", "a" >> ]
  /\ pc = "enrich"
  /\ batchIdx = 0
  /\ batchStarts = << 0 >>
  /\ analysisResults = << >>
  /\ analyzer = NoAnalyzer
  /\ pos = 0
  /\ enrichedRepos = << >>
  /\ analyzedRepos = << >>
  /\ aiSummaryCount = 0
  /\ genTrace = << >>
  /\ genCalls = 0
  /\ failedBatches = { }
  /\ configFile = TRUE
  /\ githubTokens = { "GITHUB_TOKEN" }
  /\ finalReport = None
  /\ enrichedIds = { }
  /\ scoredIds = { }
  /\ rested = FALSE
  /\ enrichTrace = << >>
  /\ notIntegrated

\* One iteration of the loop of enrichBatch, its outcome noted.
EnrichRecordTraced ==
  \E outcome \in EnrichOutcome :
    /\ EnrichRecordWith(outcome)
    /\ enrichTrace' = Append(enrichTrace, outcome)

\* return enrichedRepos
EnrichBatchReturns ==
  /\ pc = "enrich"
  /\ enrichBatchReturns
  /\ pc' = "enriched"
  /\ UNCHANGED << radar, config, openaiKey, allRepos, filteredRepos,
                  analysisResults, analyzer, batchIdx, pos, enrichedRepos,
                  analyzedRepos, aiSummaryCount, genTrace, genCalls,
                  failedBatches, envVars, finalReport, loopHistory,
                  integration >>

NextEnrich == EnrichRecordTraced \/ EnrichBatchReturns

SpecEnrich == InitEnrich /\ [][NextEnrich]_vars

\* C12: enrichBatch has no exit but its return, and returns one record per
\* record of the batch in the order of the batch: the record with
\* readmeContent and topics when its requests were answered, and the record
\* as it was, without those fields, when they ended not found, rate limited
\* or with another error; the loop goes on after a failure.
C12_EnrichBatchTotal ==
  /\ pc \in { "enrich", "enriched" }
  /\ pc = "enriched" => Len(enrichedRepos) = Len(batch)
  /\ Len(enrichedRepos) = pos
  /\ Len(enrichTrace) = pos
  /\ \A k \in 1..pos :
       /\ enrichedRepos[k].id = batch[k].id
       /\ enrichTrace[k] = "ok" =>
            IsSome(enrichedRepos[k].readmeContent) /\ IsSome(enrichedRepos[k].topics)
       /\ enrichTrace[k] # "ok" =>
            /\ enrichedRepos[k] = batch[k]
            /\ enrichedRepos[k].readmeContent = None
            /\ enrichedRepos[k].topics = None

\* C12 witness: enrichBatch has returned; the requests for the first record
\* were rate limited and the second record was enriched all the same.
C12_Witness ==
  /\ pc = "enriched"
  /\ Len(enrichTrace) = 2
  /\ enrichTrace[1] = "rateLimited"
  /\ enrichTrace[2] = "ok"
  /\ enrichedRepos[1].readmeContent = None
  /\ IsSome(enrichedRepos[2].readmeContent)

\* C13: the readmeContent of an enriched record is the first
\* min(length, 5000) characters of the README document GitHub serves for it.
C13_ReadmeHeadTruncated ==
  \A k \in 1..Len(enrichedRepos) :
    IsSome(enrichedRepos[k].readmeContent) =>
      LET text == Get(enrichedRepos[k].readmeContent)
          served == githubReadme[enrichedRepos[k].name]
      IN /\ Len(text) <= 5000
         /\ Len(text) = Min(Len(served), 5000)
         /\ \A i \in 1..Len(text) : text[i] = served[i]

\* C13 witness: a record was enriched whose README document is longer than
\* 5000 characters.
C13_Witness ==
  \E k \in 1..Len(enrichedRepos) :
    /\ IsSome(enrichedRepos[k].readmeContent)
    /\ Len(githubReadme[enrichedRepos[k].name]) > 5000
    /\ Len(Get(enrichedRepos[k].readmeContent)) = 5000

----------------------------------------------------------------------------
(* run() from its start: loadConfiguration, extractTrendingRepos, then       *)
(* analyzeRepos, formatReport and the report, for every combination of a     *)
(* present or missing radar.config.yml and set or unset token variables.     *)

\* this.config = null
NullConfig == None

\* The token variables set in process.env as run() starts.
RunTokens == { { }, { "GITHUB_TOKEN" }, { "GITHUB_TOKEN_VITALETS" } }

\* max_ai_summaries and min_relevance_score of radar.config.yml: the quota
\* set and the minimum left out, both set to 0, and the minimum set alone.
RunAnalysisSettings ==
  { [ max_ai_summaries |-> Some(1), min_relevance_score |-> None ],
    [ max_ai_summaries |-> Some(0), min_relevance_score |-> Some(0) ],
    [ max_ai_summaries |-> None, min_relevance_score |-> Some(2) ] }

\* radar.config.yml as yaml.load reads it: target_languages and
\* topic_keywords may be missing.
RunConfigFile ==
  { [ target_languages |-> t, topic_keywords |-> k,
      max_ai_summaries |-> a.max_ai_summaries,
      min_relevance_score |-> a.min_relevance_score ] :
      t \in { None, Some(<< << "p", "y" >> >>) },
      k \in { None, Some(<< << "A" >> >>), Some(<< << "C", "+", "+" >> >>) },
      a \in RunAnalysisSettings }

\* The configuration loadConfiguration leaves in this.config: [] for a missing
\* target_languages or topic_keywords, the other settings as they are read.
loadedConfig(file) ==
  [ Config(IF IsSome(file.target_languages) THEN Get(file.target_languages) ELSE << >>,
           IF IsSome(file.topic_keywords) THEN Get(file.topic_keywords) ELSE << >>,
           None, file.max_ai_summaries)
      EXCEPT !.min_relevance_score = file.min_relevance_score ]

\* The trending page of such a run: its first n repositories.
trendingPage(n) ==
  trendingList([ i \in 1..n |-> IF i % 2 = 1 THEN "o/hit" ELSE "o/misc" ])

\* ensureGitHubToken of the personalized radar finds no token.
ensureGitHubTokenThrows == radar = "personalized" /\ ~getGitHubToken(githubTokens)

InitRun ==
  /\ radar \in Radar
  /\ configFile \in BOOLEAN
  /\ githubTokens \in RunTokens
  /\ config = NullConfig
  /\ openaiKey = "sk"
  /\ allRepos = << >>
  /\ githubReadme = [ name \in RepoName |-> readmeOnGitHub(name) ]
  /\ pc = "run"
  /\ filteredRepos = << >>
  /\ analysisResults = << >>
  /\ analyzer = NoAnalyzer
  /\ batchIdx = 0
  /\ pos = 0
  /\ enrichedRepos = << >>
  /\ analyzedRepos = << >>
  /\ aiSummaryCount = 0
  /\ genTrace = << >>
  /\ genCalls = 0
  /\ failedBatches = { }
  /\ finalReport = None
  /\ batchStarts = << >>
  /\ enrichedIds = { }
  /\ scoredIds = { }
  /\ rested = FALSE
  /\ enrichTrace = << >>
  /\ notIntegrated

\* loadConfiguration returns; the personalized radar has found a token and
\* copied it to GITHUB_TOKEN.
LoadConfiguration ==
  /\ pc = "run"
  /\ configFile
  /\ ~ensureGitHubTokenThrows
  /\ \E file \in RunConfigFile : config' = loadedConfig(file)
  /\ githubTokens' = IF radar = "personalized"
                     THEN githubTokens \cup { "GITHUB_TOKEN" } ELSE githubTokens
  /\ pc' = "extract"
  /\ UNCHANGED << radar, openaiKey, allRepos, filteredRepos, analysisResults,
                  analyzer, batchIdx, pos, enrichedRepos, analyzedRepos,
                  aiSummaryCount, genTrace, genCalls, failedBatches, configFile,
                  githubReadme, finalReport, loopHistory, integration >>

\* loadConfiguration throws, and run() rejects: the file is missing, or the
\* personalized radar has loaded it and finds no token.
LoadConfigurationFails ==
  /\ pc = "run"
  /\ ~configFile \/ ensureGitHubTokenThrows
  /\ IF configFile
     THEN \E file \in RunConfigFile : config' = loadedConfig(file)
     ELSE config' = config
  /\ pc' = "rejected"
  /\ UNCHANGED << radar, openaiKey, allRepos, filteredRepos, analysisResults,
                  analyzer, batchIdx, pos, enrichedRepos, analyzedRepos,
                  aiSummaryCount, genTrace, genCalls, failedBatches, envVars,
                  finalReport, loopHistory, integration >>

\* extractTrendingRepos: this.allRepos = await trends.getAll().
ExtractTrendingRepos ==
  /\ pc = "extract"
  /\ \E n \in 0..MaxRunRepos : allRepos' = trendingPage(n)
  /\ pc' = "start"
  /\ UNCHANGED << radar, config, openaiKey, filteredRepos, analysisResults,
                  analyzer, batchIdx, pos, enrichedRepos, analyzedRepos,
                  aiSummaryCount, genTrace, genCalls, failedBatches, envVars,
                  finalReport, loopHistory, integration >>

NextRun ==
  \/ LoadConfiguration
  \/ LoadConfigurationFails
  \/ ExtractTrendingRepos
  \/ StartAnalysisFails
  \/ Next

SpecRun == InitRun /\ [][NextRun]_vars

\* The configuration error of the run: no radar.config.yml, or none of
\* GITHUB_TOKEN, GITHUB_TOKEN_BOT and GITHUB_TOKEN_VITALETS set.
configurationError ==
  \/ ~configFile
  \/ githubTokens \cap { "GITHUB_TOKEN", "GITHUB_TOKEN_BOT", "GITHUB_TOKEN_VITALETS" } = { }

\* C16: in a run with a configuration error no batch is entered, no record is
\* enriched or scored, and the run goes nowhere but to its rejection: it
\* never reaches the batch loop, the report or its completion.
C16_ConfigurationErrorFatal ==
  configurationError =>
    /\ pc \in { "run", "extract", "start", "rejected" }
    /\ pc = "extract" => radar = "standalone" /\ configFile
    /\ pc = "start" => radar = "standalone" /\ configFile
    /\ batchStarts = << >>
    /\ enrichedIds = { }
    /\ scoredIds = { }
    /\ enrichedRepos = << >>
    /\ analysisResults = << >>
    /\ finalReport = None

\* C16 witness: the standalone radar has loaded its configuration and
\* extracted and filtered a trending page with records, and has rejected for
\* want of a token.
C16_Witness ==
  /\ pc = "rejected"
  /\ radar = "standalone"
  /\ githubTokens = { }
  /\ Len(filteredRepos) > 0

----------------------------------------------------------------------------
(* The batch loop of a pipeline run. *)

\* The batch of the record at place j of filteredRepos.
batchOf(j) == (j - 1) \div batchSize

\* The places of filteredRepos whose batch is in the set of batches.
placesIn(batches) ==
  SelectSeq([ j \in 1..Len(filteredRepos) |-> j ], LAMBDA j : batchOf(j) \in batches)

\* The ids of the records in a sequence, as a set.
idsOf(repos) == { repos[k].id : k \in 1..Len(repos) }

\* analyzeRepos has returned.
analysisOver == pc \in { "done", "formatted", "completed" }

\* C14: a batch whose processing throws does not end the run: the run is
\* never rejected after a batch has failed, none of the failed batch's
\* records is in analysisResults, and when analyzeRepos returns, every batch
\* has been entered.
C14_BatchFailureCaught ==
  /\ ~(pc = "rejected" /\ failedBatches # { })
  /\ \A k \in 1..Len(placesIn(failedBatches)) :
       filteredRepos[placesIn(failedBatches)[k]].id \notin idsOf(analysisResults)
  /\ analysisOver => Len(batchStarts) = numBatches

\* C15: the analyzed records never outnumber the filtered ones, nor these the
\* extracted ones; and when analyzeRepos has returned, analysisResults holds,
\* in the order of filteredRepos, one record for every record of the batches
\* that did not fail and no other: the record of filteredRepos with the score
\* and the matched keywords of its own text, whatever its score.
C15_ResultsAreSurvivors ==
  /\ Len(analysisResults) <= Len(filteredRepos)
  /\ Len(filteredRepos) <= Len(allRepos)
  /\ pc = "done" =>
       LET kept == placesIn((0..(numBatches - 1)) \ failedBatches)
       IN /\ Len(analysisResults) = Len(kept)
          /\ Len(analysisResults)
               = Len(filteredRepos) - Len(placesIn(failedBatches))
          /\ \A k \in 1..Len(kept) :
               LET analyzed == analysisResults[k]
                   given == filteredRepos[kept[k]]
               IN /\ analyzed.id = given.id
                  /\ analyzed.name = given.name
                  /\ analyzed.language = given.language
                  /\ analyzed.description = given.description
                  /\ [analyzed EXCEPT !.aiSummary = None]
                       = basicAnalysis(analyzed, analyzer.topicKeywords)

\* C15 witness: analyzeRepos has returned from four filtered records; the
\* first batch failed and the record of the second batch is in the results
\* with score 0.
C15_Witness ==
  /\ pc = "done"
  /\ Len(filteredRepos) = 4
  /\ failedBatches = { 0 }
  /\ Len(analysisResults) = 1
  /\ analysisResults[1].relevanceScore = 0

\* C17: the batches are entered one after another in order; a record is
\* scored only after its enrichment attempt, and summarized only when scored;
\* and while a record of a batch is being enriched or is enriched, every
\* earlier batch has either failed or had all its records scored.
C17_StagesInOrder ==
  /\ batchStarts = [ k \in 1..Len(batchStarts) |-> k - 1 ]
  /\ scoredIds \subseteq enrichedIds
  /\ \A k \in 1..Len(analyzedSoFar) :
       hasSummary(analyzedSoFar[k]) => analyzedSoFar[k].id \in scoredIds
  /\ \A j \in 1..Len(filteredRepos) :
       filteredRepos[j].id \in enrichedIds =>
         /\ batchOf(j) < Len(batchStarts)
         /\ \A i \in 0..(batchOf(j) - 1) :
              i \in failedBatches \/ idsOf(batchAt(i)) \subseteq scoredIds

\* C17 witness: the enrichment of the second batch has begun after the first
\* batch was analyzed to its end, a summary included.
C17_Witness ==
  /\ pc = "enrich"
  /\ batchIdx = 1
  /\ pos >= 1
  /\ failedBatches = { }
  /\ \E k \in 1..Len(analysisResults) : hasSummary(analysisResults[k])

\* C18: a batch after the first is entered only after a delay that ended
\* with nothing requested since, whether the batch before it succeeded or
\* failed; and no delay is started after the last batch.
C18_DelayBetweenBatches ==
  /\ (pc = "enrich" /\ pos = 0 /\ batchIdx > 0) => rested
  /\ pc = "delay" => batchIdx < numBatches - 1

\* The loop of enrichBatch is about to issue the requests for the next record.
nextRequestDue == pc = "enrich" /\ pos < Len(batch)

\* C20: a rate-limited enrichment is not followed at once by the requests for
\* the next record: the run backs off first.
C20_BackoffAfterRateLimit ==
  [][EnrichRecordWith("rateLimited") => ~nextRequestDue']_vars

\* C19: a run that finds radar.config.yml and a token is not rejected by
\* anything that happens in its batches: analyzeRepos returns and the report
\* is formatted, whatever fails in enrichment, summarization or a whole
\* batch; and a completed run has entered every batch once and has its report.
C19_RunCompletes ==
  ~configurationError =>
    /\ pc = "rejected" => IsSome(finalReport)
    /\ pc = "completed" =>
         /\ IsSome(finalReport)
         /\ batchStarts = [ k \in 1..numBatches |-> k - 1 ]

----------------------------------------------------------------------------
(* RadarFormatter.format alone, on every short list of analyzed records and *)
(* every configured minimum relevance score.                                *)

\* An analyzed record with this id and this relevance score.
AnalyzedRecord(id, score) ==
  [ basicAnalysis(RepositoryRecord(id, "o/r", None, None), << >>)
      EXCEPT !.relevanceScore = score,
             !.matchedKeywords = IF score > 0 THEN << << "a" >> >> ELSE << >> ]

\* min_relevance_score of radar.config.yml: not set, or a number.
FormatMinScore == { None } \cup { Some(m) : m \in 0..MaxFormatScore }

InitFormat ==
  /\ radar = "standalone"
  /\ \E m \in FormatMinScore :
       config = [ Config(<< >>, << >>, NoSummaries.enable, NoSummaries.maxSummaries)
                    EXCEPT !.min_relevance_score = m ]
  /\ openaiKey = NoSummaries.apiKey
  /\ allRepos = << >>
  /\ filteredRepos = << >>
  /\ \E scores \in SeqsUpTo(0..MaxFormatScore, MaxFormatRepos) :
       analysisResults = [ i \in 1..Len(scores) |-> AnalyzedRecord(i, scores[i]) ]
  /\ analyzer = NoAnalyzer
  /\ pc = "done"
  /\ batchIdx = 0
  /\ pos = 0
  /\ enrichedRepos = << >>
  /\ analyzedRepos = << >>
  /\ aiSummaryCount = 0
  /\ genTrace = << >>
  /\ genCalls = 0
  /\ failedBatches = { }
  /\ configFile = TRUE
  /\ githubTokens = { "GITHUB_TOKEN" }
  /\ githubReadme = [ name \in { "o/r" } |-> << >> ]
  /\ finalReport = None
  /\ batchStarts = << >>
  /\ enrichedIds = { }
  /\ scoredIds = { }
  /\ rested = FALSE
  /\ enrichTrace = << >>
  /\ notIntegrated

NextFormat == FormatReport

SpecFormat == InitFormat /\ [][NextFormat]_vars

\* The places of analysisResults whose record reaches the score.
reaching(minScore) ==
  { j \in 1..Len(analysisResults) : analysisResults[j].relevanceScore >= minScore }

\* C21: the report lists exactly the analyzed records whose score is at least
\* the formatter's minimum relevance score, each once, from the highest score
\* to the lowest; it is the no-results report exactly when no record reaches
\* the minimum, and otherwise its header counts the records it lists.
C21_FormatFiltersAndSorts ==
  IsSome(finalReport) =>
    LET report == Get(finalReport)
        reported == report.repos
        minScore == minRelevanceScoreOf(config)
    IN /\ { reported[k].id : k \in 1..Len(reported) } = reaching(minScore)
       /\ Len(reported) = Cardinality(reaching(minScore))
       /\ \A k \in 1..Len(reported) : reported[k] = analysisResults[reported[k].id]
       /\ \A k, l \in 1..Len(reported) :
            k < l => reported[k].relevanceScore >= reported[l].relevanceScore
       /\ report.kind = "noResults" <=> reaching(minScore) = { }
       /\ report.kind = "results" => report.count = Some(Len(reported))

\* C21 witness: a report of two records that were analyzed in the other
\* order, with a third record left out for its score.
C21_Witness ==
  /\ IsSome(finalReport)
  /\ Len(analysisResults) = 3
  /\ Get(finalReport).kind = "results"
  /\ Get(finalReport).count = Some(2)
  /\ Get(finalReport).repos[1].id > Get(finalReport).repos[2].id
  /\ Get(finalReport).repos[1].relevanceScore > Get(finalReport).repos[2].relevanceScore

----------------------------------------------------------------------------
(* The defaults of the analysis settings. *)

\* The value of a setting: the configured one, the default when it is not set.
settingOr(setting, default) == IF IsSome(setting) THEN Get(setting) ELSE default

\* C22: the quota of the analyzer is the configured max_ai_summaries and the
\* report lists the records that reach the configured min_relevance_score, 0
\* included; 10 and 1 stand in only for a setting that is not configured.
C22_DefaultsOnlyWhenUnset ==
  /\ analyzer # NoAnalyzer =>
       analyzer.maxAISummaries
         = settingOr(config.max_ai_summaries, DefaultMaxAISummaries)
  /\ IsSome(finalReport) =>
       { Get(finalReport).repos[k].id : k \in 1..Len(Get(finalReport).repos) }
         = reaching(settingOr(config.min_relevance_score, DefaultMinRelevanceScore))

----------------------------------------------------------------------------
(* runRadarIntegration: the personalized radar when radar.config.yml is     *)
(* there, the standard trending updates when it is not or the radar fails.  *)
(* A trending page of at most MaxRunRepos records is one batch of the       *)
(* personalized radar, so its inter-batch delay is not among the steps.     *)

\* What a call of runStandardUpdates does: require('./update-issues') loads
\* the module, or throws.
StandardOutcome == { "returns", "throws" }

InitIntegration ==
  /\ radar = "personalized"
  /\ configFile \in BOOLEAN
  /\ githubTokens \in RunTokens
  /\ config = NullConfig
  /\ openaiKey = "sk"
  /\ allRepos = << >>
  /\ githubReadme = [ name \in RepoName |-> readmeOnGitHub(name) ]
  /\ pc = "integration"
  /\ filteredRepos = << >>
  /\ analysisResults = << >>
  /\ analyzer = NoAnalyzer
  /\ batchIdx = 0
  /\ pos = 0
  /\ enrichedRepos = << >>
  /\ analyzedRepos = << >>
  /\ aiSummaryCount = 0
  /\ genTrace = << >>
  /\ genCalls = 0
  /\ failedBatches = { }
  /\ finalReport = None
  /\ batchStarts = << >>
  /\ enrichedIds = { }
  /\ scoredIds = { }
  /\ rested = FALSE
  /\ enrichTrace = << >>
  /\ notIntegrated

\* What runRadarIntegration leaves alone: the state of the radar.
radarState ==
  << radar, config, openaiKey, allRepos, filteredRepos, analysisResults,
     analyzer, batchIdx, pos, enrichedRepos, analyzedRepos, aiSummaryCount,
     genTrace, genCalls, failedBatches, envVars, finalReport, loopHistory >>

\* No radar.config.yml: runStandardUpdates is awaited inside the try block,
\* and the function returns, or the catch block is entered with its error.
StandardUpdates(outcome) ==
  /\ pc = "integration"
  /\ ~configFile
  /\ standardRuns' = Append(standardRuns, outcome)
  /\ IF outcome = "returns"
     THEN pc' = "integrated" /\ caughtError' = caughtError
     ELSE pc' = "fallback" /\ caughtError' = Some("updateError")
  /\ UNCHANGED << radarState, radarBuilt, thrownError >>

NoConfigurationFound == \E outcome \in StandardOutcome : StandardUpdates(outcome)

\* The radar constructed and run without a look for radar.config.yml.
RunPersonalizedRadarUnchecked ==
  /\ pc = "integration"
  /\ radarBuilt' = TRUE
  /\ pc' = "run"
  /\ UNCHANGED << radarState, standardRuns, caughtError, thrownError >>

\* radar.config.yml exists: new PersonalizedRadar(), then radar.run() begins.
RunPersonalizedRadar ==
  /\ pc = "integration"
  /\ configFile
  /\ radarBuilt' = TRUE
  /\ pc' = "run"
  /\ UNCHANGED << radarState, standardRuns, caughtError, thrownError >>

\* radar.run() resolves, and runRadarIntegration with it.
RadarCompleted ==
  /\ pc = "completed"
  /\ pc' = "integrated"
  /\ UNCHANGED << radarState, integration >>

\* radar.run() rejects: the catch block is entered with the radar's error.
RadarFailed ==
  /\ pc = "rejected"
  /\ caughtError' = Some("radarError")
  /\ pc' = "fallback"
  /\ UNCHANGED << radarState, radarBuilt, standardRuns, thrownError >>

\* A catch block that rethrows the error of the fallback.
rethrownFallbackError(error) == Some("fallbackError")

\* throw error: the error the catch block was entered with.
rethrown(error) == error

\* The catch block: runStandardUpdates is awaited; when it throws, the error
\* the block was entered with is thrown again.
Fallback(outcome) ==
  /\ pc = "fallback"
  /\ standardRuns' = Append(standardRuns, outcome)
  /\ IF outcome = "returns"
     THEN pc' = "integrated" /\ thrownError' = thrownError
     ELSE pc' = "integrationRejected" /\ thrownError' = rethrown(caughtError)
  /\ UNCHANGED << radarState, radarBuilt, caughtError >>

FallbackToStandardUpdates == \E outcome \in StandardOutcome : Fallback(outcome)

NextIntegration ==
  \/ NoConfigurationFound
  \/ RunPersonalizedRadar
  \/ LoadConfiguration
  \/ LoadConfigurationFails
  \/ ExtractTrendingRepos
  \/ StartAnalysis
  \/ EnrichRecord
  \/ BeginAnalyzeBatch
  \/ AnalyzeNoSummary
  \/ AnalyzeSummaryGenerated
  \/ AnalyzeSummaryFails
  \/ AnalyzeThrowsPersonalized
  \/ FinishBatch
  \/ FormatReport
  \/ EmitReport
  \/ PostReportFails
  \/ RadarCompleted
  \/ RadarFailed
  \/ FallbackToStandardUpdates

SpecIntegration == InitIntegration /\ [][NextIntegration]_vars

\* runRadarIntegration has returned or thrown.
integrationOver == pc \in { "integrated", "integrationRejected" }

C29_FallbackAfterRadarFailure ==
  caughtError = Some("radarError") =>
    /\ pc = "fallback" => standardRuns = << >> /\ thrownError = None
    /\ pc \in { "fallback", "integrated", "integrationRejected" }
    /\ integrationOver =>
         /\ Len(standardRuns) = 1
         /\ standardRuns[1] = "returns" => pc = "integrated" /\ thrownError = None
         /\ standardRuns[1] = "throws" =>
              pc = "integrationRejected" /\ thrownError = Some("radarError")

\* C29 witness: the radar has failed in its batch, the fallback has failed
\* too, and runRadarIntegration has rejected.
C29_Witness ==
  /\ pc = "integrationRejected"
  /\ caughtError = Some("radarError")
  /\ failedBatches # { }
  /\ standardRuns = << "throws" >>

----------------------------------------------------------------------------
(* analyzeBatch as a total function. *)

\* C25: analyzeBatch never throws, so no batch fails in its analysis; and
\* when it is about to return, it has one analyzed record for each record it
\* was given, in the same order, each with a relevanceScore and a
\* matchedKeywords list.
C25_AnalyzeBatchTotal ==
  /\ failedBatches = { }
  /\ batchAnalyzed =>
       /\ Len(analyzedRepos) = Len(enrichedRepos)
       /\ \A k \in 1..Len(analyzedRepos) :
            /\ analyzedRepos[k].id = enrichedRepos[k].id
            /\ { "relevanceScore", "matchedKeywords" } \subseteq DOMAIN analyzedRepos[k]

----------------------------------------------------------------------------
(* The score and the matched keywords of a scored record. *)

\* C26: a record basicAnalysis returns has a positive relevanceScore exactly
\* when its matchedKeywords list is not empty.
C26_ScoreIffMatched ==
  pc = "scored" =>
    (analysisResults[1].relevanceScore > 0
       <=> Len(analysisResults[1].matchedKeywords) > 0)

\* C26 witness: a keyword configured twice is matched in the README text
\* alone, in a record without a description: the score is positive and the
\* keyword is listed.
C26_Witness ==
  /\ pc = "scored"
  /\ Len(config.topic_keywords) = 2
  /\ config.topic_keywords[1] = config.topic_keywords[2]
  /\ allRepos[1].description = None
  /\ allRepos[1].topics = None
  /\ analysisResults[1].relevanceScore > 0
  /\ Len(analysisResults[1].matchedKeywords) = 1

----------------------------------------------------------------------------
(* Whole-word matches and substring matches of findKeywordMatches. *)

\* The texts of the scored record that findKeywordMatches searches, in lower
\* case.
searchedTexts ==
  { toLowerCase(Get(field)) :
      field \in { f \in { descriptionText(allRepos[1]), readmeText(allRepos[1]),
                          topicsText(allRepos[1]) } : IsSome(f) } }

\* The score of a scorer that counts the substring matches only, summed over
\* the keywords from index k on.
RECURSIVE substringSum(_, _, _)
substringSum(text, keywords, k) ==
  IF k > Len(keywords) THEN 0
  ELSE partialMatches(toLowerCase(text), toLowerCase(keywords[k]))
         + substringSum(text, keywords, k + 1)

substringsIn(field, keywords) ==
  IF IsSome(field) THEN substringSum(Get(field), keywords, 1) ELSE 0

----------------------------------------------------------------------------
(* enrichSingleRepo request by request: getReadmeContent is awaited, then    *)
(* getRepoMetadata; enrichTrace notes every request with its response.       *)

InitRequests ==
  /\ \E names \in SeqsUpTo(EnrichRepoName, MaxEnrichRepos) :
       /\ Len(names) > 0
       /\ allRepos = [ i \in 1..Len(names) |->
                         RepositoryRecord(i, names[i], None, Some(<< "a" >>)) ]
  /\ filteredRepos = allRepos
  /\ \E n \in 0..MaxReadmeExcess :
       githubReadme = [ name \in EnrichRepoName |->
                          IF name = "o/r" THEN document(n) ELSE << "B", " ", "a" >> ]
  /\ pc = "readme"
  /\ batchStarts = << 0 >>
  /\ radar = "standalone"
  /\ config = Config(<< >>, << >>, NoSummaries.enable, NoSummaries.maxSummaries)
  /\ openaiKey = NoSummaries.apiKey
  /\ analysisResults = << >>
  /\ analyzer = NoAnalyzer
  /\ batchIdx = 0
  /\ pos = 0
  /\ enrichedRepos = << >>
  /\ analyzedRepos = << >>
  /\ aiSummaryCount = 0
  /\ genTrace = << >>
  /\ genCalls = 0
  /\ failedBatches = { }
  /\ configFile = TRUE
  /\ githubTokens = { "GITHUB_TOKEN" }
  /\ finalReport = None
  /\ enrichedIds = { }
  /\ scoredIds = { }
  /\ rested = FALSE
  /\ enrichTrace = << >>
  /\ notIntegrated

\* What the requests of enrichSingleRepo leave alone.
requestFrame ==
  << radar, config, openaiKey, allRepos, filteredRepos, analysisResults,
     analyzer, batchIdx, analyzedRepos, aiSummaryCount, genTrace, genCalls,
     failedBatches, envVars, finalReport, batchStarts, scoredIds, rested,
     integration >>

\* The request of this kind for the record in hand, with its response.
requested(kind, response) ==
  [ id |-> batch[pos + 1].id, request |-> kind, response |-> response ]

\* enrichSingleRepo returns this record to enrichBatch, which pushes it.
pushEnriched(enrichedRepo) ==
  /\ enrichedRepos' = Append(enrichedRepos, enrichedRepo)
  /\ pos' = pos + 1
  /\ enrichedIds' = enrichedIds \cup { batch[pos + 1].id }
  /\ pc' = "readme"

\* await this.getReadmeContent(owner, repoName): answered, or it throws and
\* the catch block returns the record.
RequestReadme ==
  /\ pc = "readme"
  /\ pos < Len(batch)
  /\ \E response \in EnrichOutcome :
       /\ enrichTrace' = Append(enrichTrace, requested("readme", response))
       /\ IF response = "ok"
          THEN pc' = "metadata" /\ UNCHANGED << enrichedRepos, pos, enrichedIds >>
          ELSE pushEnriched(enrichSingleRepo(batch[pos + 1], response))
  /\ UNCHANGED requestFrame

\* await this.getRepoMetadata(owner, repoName): answered, and the enriched
\* record is returned, or it throws and the catch block returns the record.
RequestMetadata ==
  /\ pc = "metadata"
  /\ \E response \in EnrichOutcome :
       /\ enrichTrace' = Append(enrichTrace, requested("metadata", response))
       /\ pushEnriched(enrichSingleRepo(batch[pos + 1], response))
  /\ UNCHANGED requestFrame

\* return enrichedRepos
RequestsReturn ==
  /\ pc = "readme"
  /\ enrichBatchReturns
  /\ pc' = "enriched"
  /\ UNCHANGED << requestFrame, pos, enrichedRepos, enrichedIds, enrichTrace >>

NextRequests == RequestReadme \/ RequestMetadata \/ RequestsReturn

SpecRequests == InitRequests /\ [][NextRequests]_vars

\* The requests noted for the record with this id, in the order of the trace.
requestsFor(id) == SelectSeq(enrichTrace, LAMBDA r : r.id = id)

\* C28: for every record enrichSingleRepo has returned, the README was
\* requested first and nothing else before it; the metadata was requested,
\* once and after the README, only when the README request was answered; the
\* record is the one it was given, without the README text, when either
\* request failed; and it has readmeContent and topics together or neither.
C28_EnrichmentAllOrNothing ==
  \A k \in 1..Len(enrichedRepos) :
    LET requests == requestsFor(batch[k].id)
        enriched == enrichedRepos[k]
    IN /\ Len(requests) \in { 1, 2 }
       /\ requests[1].request = "readme"
       /\ Len(requests) = 2 <=> requests[1].response = "ok"
       /\ Len(requests) = 2 => requests[2].request = "metadata"
       /\ requests[Len(requests)].response # "ok" => enriched = batch[k]
       /\ requests[Len(requests)].response = "ok" =>
            IsSome(enriched.readmeContent) /\ IsSome(enriched.topics)
       /\ IsSome(enriched.readmeContent) <=> IsSome(enriched.topics)

\* C28 witness: the README request for a record was answered and its metadata
\* request failed; the record was returned without the README text.
C28_Witness ==
  \E k \in 1..Len(enrichedRepos) :
    /\ Len(requestsFor(batch[k].id)) = 2
    /\ requestsFor(batch[k].id)[1].response = "ok"
    /\ requestsFor(batch[k].id)[2].response = "rateLimited"
    /\ enrichedRepos[k].readmeContent = None

----------------------------------------------------------------------------
(* The stages leave what they are given as it was. *)

\* The record has none of the fields the scorer adds.
unscored(rec) ==
  { "relevanceScore", "matchedKeywords", "aiSummary" } \cap DOMAIN rec = { }

\* The record has none of the fields the enricher adds.
unenriched(rec) == rec.readmeContent = None /\ rec.topics = None

\* The first sequence is the beginning of the second.
startsWith(longer, shorter) ==
  /\ Len(shorter) <= Len(longer)
  /\ SubSeq(longer, 1, Len(shorter)) = shorter

\* C24: no step of a run changes a record or a list a stage was given: the
\* trending list is as extracted after the filter, the filtered list and the
\* batch as they were after enrichBatch, the enriched records as they were
\* while analyzeBatch works on them, the analyzed records as they were once
\* pushed and after format; and the fields a stage adds are found only on
\* the records that stage returns.
C24_StagesDoNotMutate ==
  /\ [][ /\ allRepos' = allRepos
         /\ pc # "start" => filteredRepos' = filteredRepos
         /\ (pc = "enrich" /\ pc' = "enrich" /\ batchIdx' = batchIdx) =>
              startsWith(enrichedRepos', enrichedRepos)
         /\ (pc = "analyze" /\ pc' = "analyze") =>
              /\ enrichedRepos' = enrichedRepos
              /\ startsWith(analyzedRepos', analyzedRepos)
         /\ startsWith(analysisResults', analysisResults)
         /\ pc = "done" => analysisResults' = analysisResults ]_vars
  /\ [](/\ \A k \in 1..Len(allRepos) :
             unenriched(allRepos[k]) /\ unscored(allRepos[k])
        /\ \A k \in 1..Len(filteredRepos) :
             unenriched(filteredRepos[k]) /\ unscored(filteredRepos[k])
        /\ \A k \in 1..Len(enrichedRepos) : unscored(enrichedRepos[k]))

\* C24 witness: a run has filtered records out, enriched a record, scored
\* its records and formatted a report that lists them in another order than
\* analysisResults has them.
C24_Witness ==
  /\ pc = "formatted"
  /\ 0 < Len(filteredRepos)
  /\ Len(filteredRepos) < Len(allRepos)
  /\ \E k \in 1..Len(analysisResults) : ~unenriched(analysisResults[k])
  /\ Len(Get(finalReport).repos) = Len(analysisResults)
  /\ Get(finalReport).repos # analysisResults

====
